---- MODULE Spec2Model ----
(***************************************************************************)
(* HannaIRC scrapers: docs/scrapers/anime_lookup.py (catalog parser,       *)
(* search, bulk injection), scrape_to_n8n.py (web scraper driver) and      *)
(* manual_fact_to_n8n.py (manual fact entry driver).                       *)
(*                                                                         *)
(* A Python str is a sequence of one-character strings: "Op" is            *)
(* <<"O", "p">>.  Python dicts keep insertion order, so a dict is a        *)
(* sequence of [k, v] pairs with unique keys.                              *)
(***************************************************************************)
EXTENDS Integers, Sequences, FiniteSets, TLC

VARIABLES
    pc,               \* position of the running program
    catalog,          \* anime-titles.xml: the <anime> elements, in file order
    lookup,           \* the dict parse_anime_titles returns
    query,            \* the query handed to search_anime
    results,          \* the list search_anime returned
    idx,              \* inject_to_knowledge_base: records handled so far
    success_count,    \* inject_to_knowledge_base
    error_count,      \* inject_to_knowledge_base
    exclusion_file,   \* excluded_domains.json: the "domain" values, as written
    excluded_domains, \* the set load_excluded_domains_json returns
    driver,           \* which driver script runs: "scrape" or "manual"
    urls,             \* scrape_and_send_to_n8n: the urls argument
    pos,              \* scrape_and_send_to_n8n: index of the next url
    net,              \* every HTTP request made so far, in order
    out               \* the notices printed so far, in order

vars == <<pc, catalog, lookup, query, results, idx, success_count, error_count,
          exclusion_file, excluded_domains, driver, urls, pos, net, out>>

-----------------------------------------------------------------------------
(* Bounds of the model *)

MaxEntries == 2
MaxTitles == 2
WideTitles == 6
MaxRecords == 3
MaxInjects == 1
MaxUrls == 2
MaxFacts == 2

-----------------------------------------------------------------------------
(* Strings *)

\* Python's None: a value different from every str
None == <<"None">>

\* an XML attribute that is not present
NoAttr == "<absent>"

UpperAlpha == <<"A","B","C","D","E","F","G","H","I","J","K","L","M",
                "N","O","P","Q","R","S","T","U","V","W","X","Y","Z">>
LowerAlpha == <<"a","b","c","d","e","f","g","h","i","j","k","l","m",
                "n","o","p","q","r","s","t","u","v","w","x","y","z">>

LowerChar(c) ==
    IF \E n \in DOMAIN UpperAlpha : UpperAlpha[n] = c
    THEN LowerAlpha[CHOOSE n \in DOMAIN UpperAlpha : UpperAlpha[n] = c]
    ELSE c

\* str.lower()
Lower(s) == [n \in 1..Len(s) |-> LowerChar(s[n])]

\* sub in s
Contains(s, sub) ==
    \E n \in 0..(Len(s) - Len(sub)) : SubSeq(s, n + 1, n + Len(sub)) = sub

\* s.endswith(suffix)
EndsWith(s, suffix) ==
    /\ Len(suffix) <= Len(s)
    /\ SubSeq(s, Len(s) - Len(suffix) + 1, Len(s)) = suffix

Digits == <<"0","1","2","3","4","5","6","7","8","9">>

DigitValue(c) == (CHOOSE n \in DOMAIN Digits : Digits[n] = c) - 1

\* int(s) for a string of decimal digits
RECURSIVE IntOf(_)
IntOf(s) ==
    IF Len(s) = 0 THEN 0
    ELSE 10 * IntOf(SubSeq(s, 1, Len(s) - 1)) + DigitValue(s[Len(s)])

\* str(n) / f"{n}" for a non-negative int
RECURSIVE StrOf(_)
StrOf(n) ==
    IF n < 10 THEN <<Digits[n + 1]>>
    ELSE StrOf(n \div 10) \o <<Digits[(n % 10) + 1]>>

-----------------------------------------------------------------------------
(* dict *)

\* k in d
DictHas(d, k) == \E j \in 1..Len(d) : d[j].k = k

\* d[k]
DictGet(d, k) == d[CHOOSE j \in 1..Len(d) : d[j].k = k].v

\* DictSet as delete-then-insert: an existing key moves to the end
DictSetMoveLast(d, k, v) ==
    Append(SelectSeq(d, LAMBDA e : e.k # k), [k |-> k, v |-> v])

\* d[k] = v: an existing key keeps its place, a new key goes last
DictSet(d, k, v) ==
    IF DictHas(d, k)
    THEN [j \in 1..Len(d) |-> IF d[j].k = k THEN [k |-> k, v |-> v] ELSE d[j]]
    ELSE Append(d, [k |-> k, v |-> v])

-----------------------------------------------------------------------------
(* parse_anime_titles *)

AnidbPrefix == <<"h","t","t","p","s",":","/","/","a","n","i","d","b",".",
                 "n","e","t","/","?","a","i","d","=">>

\* f"https://anidb.net/?aid={aid}"
AnidbUrl(aid) == AnidbPrefix \o StrOf(aid)

EmptyLookup == [abbreviations |-> <<>>, titles |-> <<>>, anime_data |-> <<>>]

\* title_elem.get('type', 'unknown')
TitleType(title_elem) ==
    IF title_elem.type = NoAttr THEN "unknown" ELSE title_elem.type

\* NextMainTitle without the "main" test: the first title stays
NextMainTitleFirstOnly(main_title, title_type, title_text) ==
    IF main_title = None THEN title_text ELSE main_title

\* the main title after one more title: a "main" title always takes over,
\* any other title only while there is none yet
NextMainTitle(main_title, title_type, title_text) ==
    IF title_type = "main" \/ main_title = None THEN title_text ELSE main_title

\* the abbreviation table after one more title
NextAbbreviations(abbreviations, title_type, title_text, aid) ==
    IF title_type = "short"
    THEN DictSet(abbreviations, Lower(title_text), aid)
    ELSE abbreviations

\* One pass of the inner loop. st = [lookup, titles_list, main_title].
ParseTitle(st, aid, title_elem) ==
    LET title_text == title_elem.text
        title_type == TitleType(title_elem)
    IN  IF title_text = None \/ title_text = <<>>
        THEN st
        ELSE [lookup |->
                [st.lookup EXCEPT
                    !.titles = DictSet(@, Lower(title_text), aid),
                    !.abbreviations =
                        NextAbbreviations(@, title_type, title_text, aid)],
              titles_list |->
                Append(st.titles_list,
                       [text |-> title_text, type |-> title_type,
                        lang |-> title_elem.lang]),
              main_title |->
                NextMainTitle(st.main_title, title_type, title_text)]

RECURSIVE ParseTitles(_, _, _, _)
ParseTitles(st, aid, title_elems, j) ==
    IF j > Len(title_elems) THEN st
    ELSE ParseTitles(ParseTitle(st, aid, title_elems[j]), aid, title_elems, j + 1)

\* StoreAnime moved under the "main" test: an anime without a "main" title
\* is not stored
StoreAnimeIfMain(anime_data, aid, st) ==
    IF \E n \in 1..Len(st.titles_list) : st.titles_list[n].type = "main"
    THEN DictSet(anime_data, aid,
                 [aid |-> aid, main_title |-> st.main_title,
                  titles |-> st.titles_list, anidb_url |-> AnidbUrl(aid)])
    ELSE anime_data

\* lookup['anime_data'][aid] = {...}
StoreAnime(anime_data, aid, st) ==
    DictSet(anime_data, aid,
            [aid |-> aid, main_title |-> st.main_title,
             titles |-> st.titles_list, anidb_url |-> AnidbUrl(aid)])

\* One pass of the outer loop
ParseAnime(lk, anime_elem) ==
    IF anime_elem.aid = None \/ anime_elem.aid = <<>>
    THEN lk
    ELSE LET aid == IntOf(anime_elem.aid)
             st == ParseTitles([lookup |-> lk, titles_list |-> <<>>,
                                main_title |-> None],
                               aid, anime_elem.titles, 1)
         IN  [st.lookup EXCEPT !.anime_data = StoreAnime(@, aid, st)]

RECURSIVE ParseFrom(_, _, _)
ParseFrom(lk, root, j) ==
    IF j > Len(root) THEN lk
    ELSE ParseFrom(ParseAnime(lk, root[j]), root, j + 1)

parse_anime_titles(root) == ParseFrom(EmptyLookup, root, 1)

-----------------------------------------------------------------------------
(* search_anime *)

MaxResults == 10

\* (aid, anime['main_title'], anime['anidb_url'])
ResultOf(lk, aid) ==
    LET anime == DictGet(lk.anime_data, aid)
    IN  <<aid, anime.main_title, anime.anidb_url>>

\* x in results
InList(x, list) == \E j \in 1..Len(list) : list[j] = x

\* query_lower in abbr or abbr in query_lower
AbbrMatches(query_lower, abbr) ==
    Contains(abbr, query_lower) \/ Contains(query_lower, abbr)

RECURSIVE AbbrTier(_, _, _, _)
AbbrTier(lk, query_lower, j, res) ==
    IF j > Len(lk.abbreviations) THEN res
    ELSE LET abbr == lk.abbreviations[j].k
             aid == lk.abbreviations[j].v
         IN  AbbrTier(lk, query_lower, j + 1,
                      IF AbbrMatches(query_lower, abbr)
                      THEN Append(res, ResultOf(lk, aid))
                      ELSE res)

\* (aid, title, lookup['anime_data'][aid]['anidb_url']) not in results
NotSeenYet(lk, aid, title, res) ==
    ~InList(<<aid, title, DictGet(lk.anime_data, aid).anidb_url>>, res)

RECURSIVE TitleTier(_, _, _, _)
TitleTier(lk, query_lower, j, res) ==
    IF j > Len(lk.titles) THEN res
    ELSE LET title == lk.titles[j].k
             aid == lk.titles[j].v
         IN  TitleTier(lk, query_lower, j + 1,
                       IF Contains(title, query_lower)
                          /\ NotSeenYet(lk, aid, title, res)
                       THEN Append(res, ResultOf(lk, aid))
                       ELSE res)

\* the list built by the two partial tiers, before it is cut
PartialResults(lk, query_lower) ==
    TitleTier(lk, query_lower, 1, AbbrTier(lk, query_lower, 1, <<>>))

\* Top without the cut
TopUncut(res) == res

\* results[:10]
Top(res) == SubSeq(res, 1, IF Len(res) < MaxResults THEN Len(res) ELSE MaxResults)

\* QueryLower without lower()
QueryAsTyped(q) == q

\* query.lower()
QueryLower(q) == Lower(q)

search_anime(lk, q) ==
    LET query_lower == QueryLower(q)
    IN  IF DictHas(lk.abbreviations, query_lower)
        THEN <<ResultOf(lk, DictGet(lk.abbreviations, query_lower))>>
        ELSE IF DictHas(lk.titles, query_lower)
        THEN <<ResultOf(lk, DictGet(lk.titles, query_lower))>>
        ELSE Top(PartialResults(lk, query_lower))

-----------------------------------------------------------------------------
(* Inputs of the lookup program *)

\* title texts of the catalog; None is an element without text
TitleTexts == {None, <<"O","p">>, <<"o","p","a">>}

TypeAttrs == {"main", "short", NoAttr}

TitleElems ==
    {[text |-> tx, type |-> ty, lang |-> "en"] :
        tx \in TitleTexts \ {None}, ty \in TypeAttrs}
    \cup {[text |-> None, type |-> "short", lang |-> "en"]}

\* aid attributes: absent, "1", "02"
AidAttrs == {None, <<"1">>, <<"0","2">>}

SeqsUpTo(S, n) == UNION {[1..m -> S] : m \in 0..n}

AnimeElems ==
    {[aid |-> a, titles |-> ts] :
        a \in AidAttrs, ts \in SeqsUpTo(TitleElems, MaxTitles)}

SmallCatalogs == SeqsUpTo(AnimeElems, MaxEntries)

\* "Op1", "Op2", ...
WideText(n) == <<"O","p">> \o StrOf(n)

\* one anime with WideTitles titles of different texts
WideCatalogs ==
    {<<[aid |-> <<"1">>,
        titles |-> [n \in 1..WideTitles |->
                       [text |-> WideText(n), type |-> ty[n], lang |-> "en"]]]>> :
        ty \in [1..WideTitles -> {"short", NoAttr}]}

Catalogs == SmallCatalogs \cup WideCatalogs

Queries ==
    {<<>>, <<"o">>, <<"O","P">>, <<"o","P","a">>, <<"o","p","a","b">>, <<"x">>}

-----------------------------------------------------------------------------
(* anime_lookup.py main(): load the catalog, then answer search commands *)

InitCommon ==
    /\ lookup = EmptyLookup
    /\ query = <<>>
    /\ results = <<>>
    /\ idx = 0
    /\ success_count = 0
    /\ error_count = 0
    /\ excluded_domains = {}
    /\ urls = <<>>
    /\ pos = 1
    /\ net = <<>>
    /\ out = <<>>

Init ==
    /\ InitCommon
    /\ pc = "start"
    /\ driver = "anime_lookup"
    /\ catalog \in Catalogs
    /\ exclusion_file = [exists |-> FALSE, wellformed |-> TRUE, entries |-> <<>>]

\* lookup = parse_anime_titles(XML_FILE), for an XML_FILE that exists and is
\* well-formed, with aid attributes made of decimal digits
Parse ==
    /\ pc = "start"
    /\ lookup' = parse_anime_titles(catalog)
    /\ pc' = "prompt"
    /\ UNCHANGED <<catalog, query, results, idx, success_count, error_count,
                   exclusion_file, excluded_domains, driver, urls, pos, net, out>>

\* results = search_anime(lookup, query)
Search(q) ==
    /\ pc = "prompt"
    /\ query' = q
    /\ results' = search_anime(lookup, q)
    /\ pc' = "print"
    /\ UNCHANGED <<catalog, lookup, idx, success_count, error_count,
                   exclusion_file, excluded_domains, driver, urls, pos, net, out>>

\* the results are printed and the loop prompts again
PrintResults ==
    /\ pc = "print"
    /\ query' = <<>>
    /\ results' = <<>>
    /\ pc' = "prompt"
    /\ UNCHANGED <<catalog, lookup, idx, success_count, error_count,
                   exclusion_file, excluded_domains, driver, urls, pos, net, out>>

\* quit
Quit ==
    /\ pc = "prompt"
    /\ pc' = "exit"
    /\ UNCHANGED <<catalog, lookup, query, results, idx, success_count,
                   error_count, exclusion_file, excluded_domains, driver, urls,
                   pos, net, out>>

Next ==
    \/ Parse
    \/ \E q \in Queries : Search(q)
    \/ PrintResults
    \/ Quit

Spec == Init /\ [][Next]_vars

-----------------------------------------------------------------------------
(* inject_to_knowledge_base *)

\* WEBHOOK_URL, used as an opaque address
Webhook == <<"http://your-n8n-instance/webhook/teachhanna">>

ProgressEvery == 500

RelatedMax == 5

\* f"{x}" of a str or None
Format(x) == IF x = None THEN <<"N","o","n","e">> ELSE x

\* ", ".join(texts)
RECURSIVE Join(_)
Join(texts) ==
    IF Len(texts) = 0 THEN <<>>
    ELSE IF Len(texts) = 1 THEN texts[1]
    ELSE texts[1] \o <<","," ">> \o Join(Tail(texts))

\* [t['text'] for t in titles]
Texts(titles) == [n \in 1..Len(titles) |-> titles[n].text]

\* the payload of one record; "id" (a fresh uuid4) and "timestamp" (the clock)
\* are left out, "confidence", "sourceUser" and "tags" are fixed values
InjectPayload(anime_data) ==
    [text |-> Format(anime_data.main_title) \o <<" ","-"," ">>
                \o Join(Texts(anime_data.titles)),
     url |-> anime_data.anidb_url,
     title |-> anime_data.main_title,
     source_type |-> "anidb_metadata",
     related_entities |->
        Texts(SubSeq(anime_data.titles, 1,
                     IF Len(anime_data.titles) < RelatedMax
                     THEN Len(anime_data.titles) ELSE RelatedMax))]

\* what requests.post can do: answer with a status, or raise
Responses ==
    {[raised |-> FALSE, status |-> n] : n \in {200, 201, 500}}
    \cup {[raised |-> TRUE, status |-> 0]}

\* response.status_code in [200, 201]
Accepted(response) == ~response.raised /\ response.status \in {200, 201}

NextSuccessCount(count, response) ==
    IF Accepted(response) THEN count + 1 ELSE count

NextErrorCount(count, response) ==
    IF Accepted(response) THEN count ELSE count + 1

\* one printed line: what it is about (item) and the values it shows
Notice(kind, item, text, a, b) ==
    [kind |-> kind, item |-> item, text |-> text, a |-> a, b |-> b]

\* what the loop prints for one record: the progress line every 500 records,
\* then the failure line
InjectNotices(n, total, successes, errors, anime_data, response) ==
    (IF n % ProgressEvery = 0
     THEN <<Notice("progress", None, None, successes, errors)>> ELSE <<>>)
    \o (IF Accepted(response) THEN <<>>
        ELSE IF response.raised
        THEN <<Notice("error", anime_data.main_title, None, 0, 0)>>
        ELSE <<Notice("http", anime_data.main_title, None, response.status, 0)>>)

\* InjectNextIdx with the try around the whole loop: an exception ends it
InjectNextIdxAbort(n, total, response) ==
    IF response.raised THEN total ELSE n + 1

\* the try is inside the loop body: whatever the response, the loop goes on
\* with the next record
InjectNextIdx(n, total, response) == n + 1

\* the number of finished injections
InjectRuns(notices) ==
    Cardinality({n \in 1..Len(notices) : notices[n].kind = "complete"})

\* the inject command
InjectStart ==
    /\ pc = "prompt"
    /\ InjectRuns(out) < MaxInjects
    /\ pc' = "inject"
    /\ idx' = 0
    /\ success_count' = 0
    /\ error_count' = 0
    /\ out' = Append(out, Notice("injecting", None, None, 0, 0))
    /\ UNCHANGED <<catalog, lookup, query, results, exclusion_file,
                   excluded_domains, driver, urls, pos, net>>

\* one pass of the loop: build the payload, post it, count the outcome
InjectPost(response) ==
    /\ pc = "inject"
    /\ idx < Len(lookup.anime_data)
    /\ LET anime_data == lookup.anime_data[idx + 1].v
           total == Len(lookup.anime_data)
       IN  /\ net' = Append(net, [method |-> "POST", target |-> Webhook,
                                  payload |-> InjectPayload(anime_data),
                                  response |-> response])
           /\ success_count' = NextSuccessCount(success_count, response)
           /\ error_count' = NextErrorCount(error_count, response)
           /\ out' = out \o InjectNotices(idx + 1, total, success_count,
                                          error_count, anime_data, response)
           /\ idx' = InjectNextIdx(idx, total, response)
    /\ UNCHANGED <<pc, catalog, lookup, query, results, exclusion_file,
                   excluded_domains, driver, urls, pos>>

\* the loop is over: print the tally
InjectDone ==
    /\ pc = "inject"
    /\ idx >= Len(lookup.anime_data)
    /\ out' = Append(out, Notice("complete", None, None, success_count, error_count))
    /\ pc' = "prompt"
    /\ UNCHANGED <<catalog, lookup, query, results, idx, success_count,
                   error_count, exclusion_file, excluded_domains, driver,
                   urls, pos, net>>

(* Inputs of the injection *)

InjectTitles ==
    {<<>>,
     <<[text |-> <<"O","p">>, type |-> "main", lang |-> "en"]>>}

InjectElems ==
    {[aid |-> a, titles |-> ts] :
        a \in {None, <<"1">>, <<"0","2">>, <<"3">>}, ts \in InjectTitles}

InjectCatalogs == SeqsUpTo(InjectElems, MaxRecords)

\* excluded_domains.json
ExclusionFile(entries) == [exists |-> TRUE, wellformed |-> TRUE, entries |-> entries]

Domain(d) == [has_domain |-> TRUE, domain |-> d]

ExampleCom == <<"e","x","a","m","p","l","e",".","c","o","m">>

AnidbNet == <<"a","n","i","d","b",".","n","e","t">>

InitInject ==
    /\ InitCommon
    /\ pc = "start"
    /\ driver = "anime_lookup"
    /\ catalog \in InjectCatalogs
    /\ exclusion_file \in {ExclusionFile(<<Domain(ExampleCom)>>),
                           ExclusionFile(<<Domain(ExampleCom), Domain(AnidbNet)>>)}

NextInject ==
    \/ Parse
    \/ InjectStart
    \/ \E response \in Responses : InjectPost(response)
    \/ InjectDone
    \/ Quit

SpecInject == InitInject /\ [][NextInject]_vars

-----------------------------------------------------------------------------
(* The exclusion filter of scrape_to_n8n.py and manual_fact_to_n8n.py *)

Whitespace == {" "}

\* str.strip()
RECURSIVE Strip(_)
Strip(s) ==
    IF Len(s) > 0 /\ s[1] \in Whitespace THEN Strip(Tail(s))
    ELSE IF Len(s) > 0 /\ s[Len(s)] \in Whitespace
    THEN Strip(SubSeq(s, 1, Len(s) - 1))
    ELSE s

\* load_excluded_domains_json (the two scripts carry the same function): a
\* missing file and a file that cannot be read as a list of objects give the
\* empty set
load_excluded_domains_json(file) ==
    IF ~file.exists THEN {}
    ELSE IF ~file.wellformed THEN {}
    ELSE {Lower(Strip(file.entries[n].domain)) :
            n \in {m \in 1..Len(file.entries) : file.entries[m].has_domain}}

\* s.find(c) + 1: the place of the first c in s, 0 when there is none
IndexOf(s, c) ==
    IF \E n \in 1..Len(s) : s[n] = c
    THEN CHOOSE n \in 1..Len(s) : s[n] = c /\ \A m \in 1..(n - 1) : s[m] # c
    ELSE 0

\* the place of the first character of C in s at or after from, Len(s) + 1
\* when there is none
FirstOf(s, C, from) ==
    IF \E n \in from..Len(s) : s[n] \in C
    THEN CHOOSE n \in from..Len(s) :
            s[n] \in C /\ \A m \in from..(n - 1) : s[m] \notin C
    ELSE Len(s) + 1

Letters == {UpperAlpha[n] : n \in DOMAIN UpperAlpha}
           \cup {LowerAlpha[n] : n \in DOMAIN LowerAlpha}

SchemeChars == Letters \cup {Digits[n] : n \in DOMAIN Digits} \cup {"+", "-", "."}

\* urllib.parse.urlsplit: what is left of the url once a scheme is taken off
AfterScheme(url) ==
    LET colon == IndexOf(url, ":")
    IN  IF /\ colon > 1
           /\ url[1] \in Letters
           /\ \A n \in 1..(colon - 1) : url[n] \in SchemeChars
        THEN SubSeq(url, colon + 1, Len(url))
        ELSE url

\* urlparse(url).netloc: what follows "//", up to the first "/", "?" or "#"
Netloc(url) ==
    LET rest == AfterScheme(url)
    IN  IF Len(rest) >= 2 /\ rest[1] = "/" /\ rest[2] = "/"
        THEN SubSeq(rest, 3, FirstOf(rest, {"/", "?", "#"}, 3) - 1)
        ELSE <<>>

\* s.split(c)
RECURSIVE Split(_, _)
Split(s, c) ==
    IF IndexOf(s, c) = 0 THEN <<s>>
    ELSE <<SubSeq(s, 1, IndexOf(s, c) - 1)>>
         \o Split(SubSeq(s, IndexOf(s, c) + 1, Len(s)), c)

\* domain = urlparse(url).netloc.lower()
ScrapeDomain(url) == Lower(Netloc(url))

\* domain = url.split('/')[2].lower() if '://' in url else url.lower()
ManualDomain(url) ==
    IF Contains(url, <<":","/","/">>) THEN Lower(Split(url, "/")[3]) ELSE Lower(url)

\* any(domain == ex or domain.endswith('.' + ex) for ex in excluded_domains)
DomainExcluded(domain, excluded) ==
    \E ex \in excluded : domain = ex \/ EndsWith(domain, <<".">> \o ex)

\* ScrapeVetoes without the subdomain test
ScrapeVetoesExact(url, excluded) == ScrapeDomain(url) \in excluded

\* the web scraper's check of one url
ScrapeVetoes(url, excluded) == DomainExcluded(ScrapeDomain(url), excluded)

\* the manual driver's check of one url; a blank url is not checked
ManualVetoes(url, excluded) ==
    url # <<>> /\ DomainExcluded(ManualDomain(url), excluded)

-----------------------------------------------------------------------------
(* scrape_and_send_to_n8n *)

\* the names scrape_and_send_to_n8n binds before line 81, and the module's
\* globals; "facts" and "payload" are bound nowhere
BoundNames ==
    {"urls", "webhook_url", "ca_cert_path", "excluded_domains_path",
     "excluded_domains", "tags", "tag_list", "source_type", "confidence",
     "related_entities", "related_list", "user_agent", "headers", "url",
     "domain", "response", "soup", "text", "title", "fact_id",
     "requests", "uuid", "BeautifulSoup", "urlparse", "datetime", "os",
     "json", "load_excluded_domains_json", "scrape_and_send_to_n8n"}

StartsWith(s, prefix) ==
    Len(prefix) <= Len(s) /\ SubSeq(s, 1, Len(prefix)) = prefix

\* requests sends a request only to an http:// or https:// url, and raises
\* for any other
GetResponses(url) ==
    IF \/ StartsWith(Lower(url), <<"h","t","t","p",":","/","/">>)
       \/ StartsWith(Lower(url), <<"h","t","t","p","s",":","/","/">>)
    THEN Responses
    ELSE {[raised |-> TRUE, status |-> 0]}

\* requests.get and response.raise_for_status() went through
Fetched(response) == ~response.raised /\ response.status < 400

\* line 58, and the two prompts for the batch's tags and entities
ScrapeLoad ==
    /\ driver = "scrape"
    /\ pc = "start"
    /\ excluded_domains' = load_excluded_domains_json(exclusion_file)
    /\ pc' = "loop"
    /\ UNCHANGED <<catalog, lookup, query, results, idx, success_count,
                   error_count, exclusion_file, driver, urls, pos, net, out>>

\* lines 68-71: the url's domain is excluded
ScrapeSkip ==
    /\ driver = "scrape"
    /\ pc = "loop"
    /\ pos <= Len(urls)
    /\ ScrapeVetoes(urls[pos], excluded_domains)
    /\ out' = Append(out, Notice("skip", urls[pos], ScrapeDomain(urls[pos]), 0, 0))
    /\ pos' = pos + 1
    /\ UNCHANGED <<pc, catalog, lookup, query, results, idx, success_count,
                   error_count, exclusion_file, excluded_domains, driver,
                   urls, net>>

\* lines 72-83: the page is requested. A failed request raises inside the
\* try; after a fetched page line 81 raises NameError, "facts" being unbound.
\* Either way line 83 reports the error and the loop goes on.
ScrapeFetch(response) ==
    /\ driver = "scrape"
    /\ pc = "loop"
    /\ pos <= Len(urls)
    /\ ~ScrapeVetoes(urls[pos], excluded_domains)
    /\ response \in GetResponses(urls[pos])
    /\ net' = Append(net, [method |-> "GET", target |-> urls[pos],
                           payload |-> None, response |-> response])
    /\ out' = out \o
              <<Notice("scraping", urls[pos], None, 0, 0),
                Notice("scrape_error", urls[pos],
                       IF Fetched(response) /\ "facts" \notin BoundNames
                       THEN <<"NameError">> ELSE <<"RequestException">>,
                       0, 0)>>
    /\ pos' = pos + 1
    /\ UNCHANGED <<pc, catalog, lookup, query, results, idx, success_count,
                   error_count, exclusion_file, excluded_domains, driver, urls>>

\* line 84, "if not facts": NameError outside any try, so the function raises
\* and lines 85-95 (the POSTs) never run
ScrapeAfterLoop ==
    /\ driver = "scrape"
    /\ pc = "loop"
    /\ pos > Len(urls)
    /\ "facts" \notin BoundNames
    /\ pc' = "raised"
    /\ UNCHANGED <<catalog, lookup, query, results, idx, success_count,
                   error_count, exclusion_file, excluded_domains, driver,
                   urls, pos, net, out>>

-----------------------------------------------------------------------------
(* manual_fact_entry_and_send *)

\* the webhook_url argument, used as an opaque address
ManualWebhook == <<"https://your-n8n-instance/webhook/your-webhook-id">>

\* "url": url if url else None
ManualPayload(url, text) ==
    [text |-> text,
     url |-> IF url # <<>> THEN url ELSE None,
     title |-> None,
     source_type |-> "manual",
     related_entities |-> <<>>]

\* line 62
ManualLoad ==
    /\ driver = "manual"
    /\ pc = "start"
    /\ excluded_domains' = load_excluded_domains_json(exclusion_file)
    /\ pc' = "loop"
    /\ UNCHANGED <<catalog, lookup, query, results, idx, success_count,
                   error_count, exclusion_file, driver, urls, pos, net, out>>

\* lines 64-69: the typed url is excluded; the loop asks for the next url
ManualSkip(typed) ==
    /\ driver = "manual"
    /\ pc = "loop"
    /\ Len(out) < MaxFacts
    /\ ManualVetoes(Strip(typed), excluded_domains)
    /\ out' = Append(out, Notice("skip", Strip(typed),
                                 ManualDomain(Strip(typed)), 0, 0))
    /\ UNCHANGED <<pc, catalog, lookup, query, results, idx, success_count,
                   error_count, exclusion_file, excluded_domains, driver,
                   urls, pos, net>>

\* lines 64-74: the url passes and the fact text is 'quit'
ManualQuit(typed) ==
    /\ driver = "manual"
    /\ pc = "loop"
    /\ ~ManualVetoes(Strip(typed), excluded_domains)
    /\ out' = Append(out, Notice("exiting", None, None, 0, 0))
    /\ pc' = "returned"
    /\ UNCHANGED <<catalog, lookup, query, results, idx, success_count,
                   error_count, exclusion_file, excluded_domains, driver,
                   urls, pos, net>>

\* lines 64-105: the url passes, the fact is read and posted
ManualSend(typed, text, response) ==
    /\ driver = "manual"
    /\ pc = "loop"
    /\ Len(out) < MaxFacts
    /\ ~ManualVetoes(Strip(typed), excluded_domains)
    /\ net' = Append(net, [method |-> "POST", target |-> ManualWebhook,
                           payload |-> ManualPayload(Strip(typed), text),
                           response |-> response])
    /\ out' = Append(out,
                     IF response.raised
                     THEN Notice("send_error", Strip(typed), None, 0, 0)
                     ELSE Notice("status", Strip(typed), None, response.status, 0))
    /\ UNCHANGED <<pc, catalog, lookup, query, results, idx, success_count,
                   error_count, exclusion_file, excluded_domains, driver,
                   urls, pos>>

-----------------------------------------------------------------------------
(* Inputs of the two drivers *)

UrlSchemes == {<<>>, <<"H","T","T","P",":","/","/">>}

UrlHosts ==
    {ExampleCom,
     <<"s","u","b",".","e","x","a","m","p","l","e",".","c","o","m">>,
     <<"n","o","t","e","x","a","m","p","l","e",".","c","o","m">>,
     <<"E","x","a","m","p","l","e",".","C","O","M">>}

UrlTails == {<<>>, <<"/","p">>, <<":","8","0","/","p">>}

UrlPool ==
    {scheme \o host \o tail :
        scheme \in UrlSchemes, host \in UrlHosts, tail \in UrlTails}
    \cup {<<"h","t","t","p",":","/","/","u","@">> \o ExampleCom,
          <<"h","t","t","p","s",":","/","/">> \o ExampleCom \o <<"/","p">>}

\* what can be typed at the url prompt: a url, one with blanks around it, or
\* nothing
TypedUrls == UrlPool \cup {<<>>, <<" ">> \o ExampleCom \o <<" ">>}

FactTexts == {<<"f","a","c","t">>}

ExclusionFiles ==
    {[exists |-> FALSE, wellformed |-> TRUE, entries |-> <<>>],
     [exists |-> TRUE, wellformed |-> FALSE, entries |-> <<>>],
     ExclusionFile(<<Domain(ExampleCom)>>),
     ExclusionFile(<<[has_domain |-> FALSE, domain |-> <<>>],
                     Domain(<<" ","E","x","a","m","p","l","e",".","C","O","M"," ">>)>>)}

InitDrivers ==
    /\ lookup = EmptyLookup
    /\ query = <<>>
    /\ results = <<>>
    /\ idx = 0
    /\ success_count = 0
    /\ error_count = 0
    /\ excluded_domains = {}
    /\ pos = 1
    /\ net = <<>>
    /\ out = <<>>
    /\ pc = "start"
    /\ catalog = <<>>
    /\ exclusion_file \in ExclusionFiles
    /\ driver \in {"scrape", "manual"}
    /\ urls \in IF driver = "scrape" THEN SeqsUpTo(UrlPool, MaxUrls) ELSE {<<>>}

NextDrivers ==
    \/ ScrapeLoad
    \/ ScrapeSkip
    \/ \E response \in Responses : ScrapeFetch(response)
    \/ ScrapeAfterLoop
    \/ ManualLoad
    \/ \E typed \in TypedUrls : ManualSkip(typed)
    \/ \E typed \in TypedUrls : ManualQuit(typed)
    \/ \E typed \in TypedUrls, text \in FactTexts, response \in Responses :
           ManualSend(typed, text, response)

SpecDrivers == InitDrivers /\ [][NextDrivers]_vars

-----------------------------------------------------------------------------
(* Claims about the lookup *)

Searched == pc = "print"

Parsed == pc \in {"prompt", "print", "exit"}

\* C1: when lowercase(query) is a key of the abbreviation table, search_anime
\* returns exactly one result: (id, main title, url) of the record that key
\* maps to.
C1_ExactAbbreviation ==
    Searched =>
        \A j \in 1..Len(lookup.abbreviations) :
            lookup.abbreviations[j].k = Lower(query) =>
                \E r \in 1..Len(lookup.anime_data) :
                    /\ lookup.anime_data[r].k = lookup.abbreviations[j].v
                    /\ results = <<<<lookup.abbreviations[j].v,
                                     lookup.anime_data[r].v.main_title,
                                     lookup.anime_data[r].v.anidb_url>>>>

\* an exact abbreviation hit of a query typed in another case, while the
\* partial tiers would have matched several keys
C1_Witness ==
    /\ Searched
    /\ query # Lower(query)
    /\ DictHas(lookup.abbreviations, Lower(query))
    /\ Len(PartialResults(lookup, Lower(query))) > 1
    /\ Len(results) = 1

\* C5: every id stored as a value in the abbreviation table or in the title
\* table is a key of the records table.
C5_ReferentialIntegrity ==
    /\ \A j \in 1..Len(lookup.abbreviations) :
           DictHas(lookup.anime_data, lookup.abbreviations[j].v)
    /\ \A j \in 1..Len(lookup.titles) :
           DictHas(lookup.anime_data, lookup.titles[j].v)

NonEmptyTitle(title_elem) == title_elem.text # None /\ title_elem.text # <<>>

HasAid(anime_elem) == anime_elem.aid # None /\ anime_elem.aid # <<>>

\* a catalog with an anime without identifier that has titles, an anime whose
\* titles are all empty, and both tables filled
C5_Witness ==
    /\ Parsed
    /\ Len(lookup.abbreviations) > 0
    /\ Len(lookup.titles) > 0
    /\ \E j \in 1..Len(catalog) :
           /\ ~HasAid(catalog[j])
           /\ \E n \in 1..Len(catalog[j].titles) :
                  NonEmptyTitle(catalog[j].titles[n])

\* the triples the abbreviation tier collects
AbbrResults(lk, query_lower) == AbbrTier(lk, query_lower, 1, <<>>)

PartialSearch ==
    /\ Searched
    /\ ~DictHas(lookup.abbreviations, Lower(query))
    /\ ~DictHas(lookup.titles, Lower(query))

\* C6: no triple appended by the title tier equals a triple that was already
\* in the result list when it was appended.
C6_TitleTierAppendsNoDuplicate ==
    PartialSearch =>
        LET full == PartialResults(lookup, Lower(query))
            first == Len(AbbrResults(lookup, Lower(query))) + 1
        IN  \A j \in first..Len(full) :
                \A n \in 1..(j - 1) : full[n] # full[j]

MinOf(S) == CHOOSE n \in S : \A m \in S : n <= m

MaxOf(S) == CHOOSE n \in S : \A m \in S : m <= n

NonEmptyAt(title_elems) ==
    {n \in 1..Len(title_elems) : NonEmptyTitle(title_elems[n])}

MainAt(title_elems) ==
    {n \in NonEmptyAt(title_elems) : title_elems[n].type = "main"}

\* the last anime of the catalog with this identifier
LastAnimeWith(aid) ==
    catalog[MaxOf({j \in 1..Len(catalog) :
                     HasAid(catalog[j]) /\ IntOf(catalog[j].aid) = aid})]

\* first "main" title, else first title
FirstMainElseFirst(title_elems) ==
    IF MainAt(title_elems) # {}
    THEN title_elems[MinOf(MainAt(title_elems))].text
    ELSE title_elems[MinOf(NonEmptyAt(title_elems))].text

\* last "main" title, else first title
LastMainElseFirst(title_elems) ==
    IF MainAt(title_elems) # {}
    THEN title_elems[MaxOf(MainAt(title_elems))].text
    ELSE title_elems[MinOf(NonEmptyAt(title_elems))].text

\* C7 as stated: the main title of an anime with a non-empty title is the
\* first non-empty title tagged "main", else the first non-empty title.
C7_FirstMainWins ==
    Parsed =>
        \A r \in 1..Len(lookup.anime_data) :
            LET title_elems == LastAnimeWith(lookup.anime_data[r].k).titles
            IN  NonEmptyAt(title_elems) # {} =>
                    lookup.anime_data[r].v.main_title
                        = FirstMainElseFirst(title_elems)

\* C7 as amended: the main title of an anime with a non-empty title is the
\* last non-empty title tagged "main", else the first non-empty title.
C7_LastMainWins ==
    Parsed =>
        \A r \in 1..Len(lookup.anime_data) :
            LET title_elems == LastAnimeWith(lookup.anime_data[r].k).titles
            IN  NonEmptyAt(title_elems) # {} =>
                    lookup.anime_data[r].v.main_title
                        = LastMainElseFirst(title_elems)

\* an anime whose first title is not "main" and is followed by a "main"
\* title of another text, and one with two "main" titles of different texts
C7_Witness ==
    /\ Parsed
    /\ \E r \in 1..Len(lookup.anime_data) :
           LET title_elems == LastAnimeWith(lookup.anime_data[r].k).titles
           IN  /\ Cardinality(MainAt(title_elems)) = 1
               /\ MinOf(NonEmptyAt(title_elems)) \notin MainAt(title_elems)
               /\ lookup.anime_data[r].v.main_title
                      # title_elems[MinOf(NonEmptyAt(title_elems))].text
    /\ \E r \in 1..Len(lookup.anime_data) :
           LET title_elems == LastAnimeWith(lookup.anime_data[r].k).titles
           IN  /\ Cardinality(MainAt(title_elems)) = 2
               /\ FirstMainElseFirst(title_elems) # LastMainElseFirst(title_elems)

\* C8: search_anime returns at most 10 results.
C8_AtMostTen == Searched => Len(results) <= MaxResults

\* the empty query against a lookup with more than 10 matching keys
C8_Witness ==
    /\ Searched
    /\ query = <<>>
    /\ Len(PartialResults(lookup, Lower(query))) > MaxResults
    /\ Len(results) = MaxResults

-----------------------------------------------------------------------------
(* Claims about the bulk push *)

\* the distinct identifiers of the catalog, in the order of their first anime
RECURSIVE CatalogAids(_, _)
CatalogAids(j, seen) ==
    IF j > Len(catalog) THEN seen
    ELSE IF HasAid(catalog[j]) /\ ~InList(IntOf(catalog[j].aid), seen)
    THEN CatalogAids(j + 1, Append(seen, IntOf(catalog[j].aid)))
    ELSE CatalogAids(j + 1, seen)

RecordOrder == CatalogAids(1, <<>>)

\* the requests numbered from..to that were answered 200 or 201
AcceptedIn(from, to) ==
    Cardinality({m \in from..to : Accepted(net[m].response)})

\* the tally line of the last finished injection
LastTally ==
    out[MaxOf({n \in 1..Len(out) : out[n].kind = "complete"})]

\* C2: the bulk push posts every record exactly once, in catalog order,
\* whatever the outcomes; a failure does not stop the records after it; the
\* tally has success_count + error_count = N, success_count being the number
\* of 200/201 responses.
C2_BulkPushTally ==
    Parsed \/ pc = "inject" =>
        LET N == Len(RecordOrder)
            base == InjectRuns(out) * N
        IN  /\ \A m \in 1..Len(net) :
                   /\ net[m].method = "POST"
                   /\ net[m].payload.url = AnidbUrl(RecordOrder[((m - 1) % N) + 1])
            /\ pc = "inject" =>
                   /\ Len(net) = base + idx
                   /\ success_count = AcceptedIn(base + 1, Len(net))
                   /\ success_count + error_count = idx
            /\ pc # "inject" => Len(net) = base
            /\ pc # "inject" /\ InjectRuns(out) > 0 =>
                   /\ LastTally.a = AcceptedIn(base - N + 1, base)
                   /\ LastTally.a + LastTally.b = N

\* three records, the second answered 500: the third is posted and the tally
\* is 2 successes, 1 failure
C2_Witness ==
    /\ pc = "prompt"
    /\ InjectRuns(out) = 1
    /\ Len(RecordOrder) = 3
    /\ Len(net) = 3
    /\ Accepted(net[1].response)
    /\ ~net[2].response.raised /\ net[2].response.status = 500
    /\ Accepted(net[3].response)
    /\ LastTally.a = 2 /\ LastTally.b = 1

\* C9: the bulk push never posts a record whose url has an excluded host.
C9_BulkPushGated ==
    \A m \in 1..Len(net) :
        (driver = "anime_lookup" /\ net[m].method = "POST") =>
            ~DomainExcluded(ScrapeDomain(net[m].payload.url),
                            load_excluded_domains_json(exclusion_file))

-----------------------------------------------------------------------------
(* Claims about the two drivers *)

\* the text after the first "://", the whole text when there is none
AfterSlashes(url) ==
    IF Contains(url, <<":","/","/">>)
    THEN LET at == CHOOSE n \in 1..Len(url) :
                      /\ StartsWith(SubSeq(url, n, Len(url)), <<":","/","/">>)
                      /\ \A m \in 1..(n - 1) :
                             ~StartsWith(SubSeq(url, m, Len(url)), <<":","/","/">>)
         IN  SubSeq(url, at + 3, Len(url))
    ELSE url

\* the host of a url: the authority without user information and port
HostOf(url) ==
    LET rest == AfterSlashes(url)
        authority == SubSeq(rest, 1, FirstOf(rest, {"/", "?", "#"}, 1) - 1)
        ats == {n \in 1..Len(authority) : authority[n] = "@"}
        hostport == IF ats = {} THEN authority
                    ELSE SubSeq(authority, MaxOf(ats) + 1, Len(authority))
    IN  SubSeq(hostport, 1, FirstOf(hostport, {":"}, 1) - 1)

\* the lowercased host equals an excluded entry or ends with "." + entry
HostExcluded(url, excluded) == DomainExcluded(Lower(HostOf(url)), excluded)

IsSkip(notice) == notice.kind = "skip"

\* C3: both drivers answer 'excluded' exactly when the lowercased host of the
\* url equals an excluded entry or is a subdomain of one.
C3_ExcludedIffHostMatches ==
    driver \in {"scrape", "manual"} =>
        /\ \A n \in 1..Len(out) :
               IsSkip(out[n]) => HostExcluded(out[n].item, excluded_domains)
        /\ \A m \in 1..Len(net) :
               /\ net[m].method = "GET" =>
                      ~HostExcluded(net[m].target, excluded_domains)
               /\ (net[m].method = "POST" /\ net[m].payload.url # None) =>
                      ~HostExcluded(net[m].payload.url, excluded_domains)

\* the web scraper's test of a url, written out
NetlocExcluded(url) == DomainExcluded(Lower(Netloc(url)), excluded_domains)

NetlocAllowed(url) == ~NetlocExcluded(url)

\* C4: a url the exclusion check matches is never requested and never posted;
\* it is skipped with a notice and the driver goes on with the next item.
C4_VetoedNeverRequested ==
    /\ driver = "scrape" =>
           LET handled == SubSeq(urls, 1, pos - 1)
               skipped == SelectSeq(out, IsSkip)
           IN  /\ [m \in 1..Len(net) |-> net[m].target]
                      = SelectSeq(handled, NetlocAllowed)
               /\ \A m \in 1..Len(net) : net[m].method = "GET"
               /\ [n \in 1..Len(skipped) |-> skipped[n].item]
                      = SelectSeq(handled, NetlocExcluded)
               /\ pc = "raised" => pos = Len(urls) + 1
    /\ driver = "manual" =>
           /\ \A m \in 1..Len(net) :
                  \/ net[m].payload.url = None
                  \/ ~DomainExcluded(ManualDomain(net[m].payload.url),
                                     excluded_domains)
           /\ \A n \in 1..Len(out) :
                  IsSkip(out[n]) =>
                      DomainExcluded(ManualDomain(out[n].item), excluded_domains)
           /\ (Len(out) > 0 /\ IsSkip(out[Len(out)])) => pc = "loop"

\* the scraper skipped its first url, a subdomain of an excluded entry, and
\* then requested the second one
C4_Witness ==
    /\ driver = "scrape"
    /\ Len(urls) = 2
    /\ pos = 3
    /\ NetlocExcluded(urls[1])
    /\ Lower(Netloc(urls[1])) \notin excluded_domains
    /\ Len(out) > 0 /\ IsSkip(out[1]) /\ out[1].item = urls[1]
    /\ Len(net) = 1 /\ net[1].target = urls[2]

\* the requests for url that fetched the page
FetchedGets(url) ==
    {m \in 1..Len(net) :
        net[m].method = "GET" /\ net[m].target = url /\ Fetched(net[m].response)}

\* the POSTs of a record of url
PostsOf(url) ==
    {m \in 1..Len(net) : net[m].method = "POST" /\ net[m].payload.url = url}

\* C10: scrape_and_send_to_n8n posts the record of every fetched page exactly
\* once and returns without raising.
C10_ScrapePostsAndReturns ==
    (driver = "scrape" /\ pc \in {"returned", "raised"}) =>
        /\ pc = "returned"
        /\ \A j \in 1..Len(urls) :
               Cardinality(PostsOf(urls[j])) = Cardinality(FetchedGets(urls[j]))

-----------------------------------------------------------------------------
(* Claims about the order of the partial results *)

\* the non-empty titles of the anime from the j-th on that have an
\* identifier, in catalog order
RECURSIVE CatalogTitles(_)
CatalogTitles(j) ==
    IF j > Len(catalog) THEN <<>>
    ELSE (IF HasAid(catalog[j])
          THEN SelectSeq(catalog[j].titles, NonEmptyTitle) ELSE <<>>)
         \o CatalogTitles(j + 1)

\* the distinct lowercase texts of title_elems, in the order of their first
\* appearance
RECURSIVE FirstInserted(_, _)
FirstInserted(title_elems, seen) ==
    IF Len(title_elems) = 0 THEN seen
    ELSE FirstInserted(Tail(title_elems),
                       IF InList(Lower(Head(title_elems).text), seen)
                       THEN seen
                       ELSE Append(seen, Lower(Head(title_elems).text)))

IsShort(title_elem) == title_elem.type = "short"

AbbrKeyOrder == FirstInserted(SelectSeq(CatalogTitles(1), IsShort), <<>>)

TitleKeyOrder == FirstInserted(CatalogTitles(1), <<>>)

\* the query is in the key or the key is in the query
AbbrHit(key) ==
    Contains(key, Lower(query)) \/ Contains(Lower(query), key)

\* the key contains the query
TitleHit(key) == Contains(key, Lower(query))

\* the results of the partial abbreviation matches, in first-insertion order
AbbrPart ==
    LET keys == SelectSeq(AbbrKeyOrder, AbbrHit)
    IN  [n \in 1..Len(keys) |->
            ResultOf(lookup, DictGet(lookup.abbreviations, keys[n]))]

\* the results of all the partial title matches, in first-insertion order
TitlePartAll ==
    LET keys == SelectSeq(TitleKeyOrder, TitleHit)
    IN  [n \in 1..Len(keys) |->
            ResultOf(lookup, DictGet(lookup.titles, keys[n]))]

\* res followed by the results of the title keys whose (id, key, url) triple
\* is not in the list built so far
RECURSIVE WithUnseenTitles(_, _)
WithUnseenTitles(keys, res) ==
    IF Len(keys) = 0 THEN res
    ELSE LET aid == DictGet(lookup.titles, Head(keys))
         IN  WithUnseenTitles(
                 Tail(keys),
                 IF InList(<<aid, Head(keys), AnidbUrl(aid)>>, res)
                 THEN res
                 ELSE Append(res, ResultOf(lookup, aid)))

FirstTen(list) ==
    [n \in 1..(IF Len(list) < MaxResults THEN Len(list) ELSE MaxResults) |->
        list[n]]

\* C11 as stated: without an exact hit, search_anime returns the first 10 of
\* the partial abbreviation matches followed by the partial title matches
\* (every title key containing the query), each tier in the order in which
\* its keys were first inserted.
C11_TiersInInsertionOrder ==
    PartialSearch => results = FirstTen(AbbrPart \o TitlePartAll)

\* C11 as amended: the title tier leaves out a key whose (id, key, url)
\* triple is already in the list built so far.
C11_TiersInInsertionOrderUnseen ==
    PartialSearch =>
        results = FirstTen(WithUnseenTitles(SelectSeq(TitleKeyOrder, TitleHit),
                                            AbbrPart))

\* two abbreviation matches whose keys were written by different anime, then
\* a title match that is appended and one that is left out
C11_Witness ==
    /\ PartialSearch
    /\ Len(AbbrPart) >= 2
    /\ AbbrPart[1][1] # AbbrPart[2][1]
    /\ Len(results) > Len(AbbrPart)
    /\ Len(results) < Len(AbbrPart \o TitlePartAll)
    /\ Len(AbbrPart \o TitlePartAll) <= MaxResults

====
